---------------------------- MODULE Spec2Model ----------------------------
(***************************************************************************)
(* Shape inference engine of torch_glow                                    *)
(* (torch_glow/src/ShapeInferenceEngine.cpp).                              *)
(*                                                                         *)
(* The operator shape rules (binaryOp, mm, bmm, addmm, constantChunk,      *)
(* fusedConcat, primConstant) are operators computed the way the C++       *)
(* computes them.  The engine (run, getGraphIntputShape, shapeOnNode,      *)
(* generateGraphOutputShape) is a state machine over shapeMap_ and         *)
(* outputShape_.                                                           *)
(*                                                                         *)
(* C++ vectors are 0-indexed, TLA+ sequences 1-indexed: t[k] in the source *)
(* is t[k + 1] here.                                                       *)
(***************************************************************************)
EXTENDS Integers, Sequences, FiniteSets, TLC

VARIABLES
    graph_,        \* the torch::jit::Graph handed to the constructor
    inputs_,       \* the at::IValue inputs handed to the constructor
    shapeMap_,     \* value identity -> VariableMeta
    outputShape_,  \* what getGraphOutputShape() returns
    pc,            \* where run() stands
    i_,            \* loop index of getGraphIntputShape (0-based, as in the source)
    n_,            \* index of the node run() is at (1-based position in graph_.nodes)
    ret,           \* what the last run() returned
    runs,          \* run() calls made on the current engine instance
    passes,        \* run() calls made on this graph and these inputs, over all instances
    firstOut,      \* getGraphOutputShape() after the first successful pass
    writes,        \* value identity -> number of writes to its entry in the current pass
    call,          \* the rule call under test (rule harness)
    result,        \* what that call returned
    reads          \* the element reads that call performed

vars == <<graph_, inputs_, shapeMap_, outputShape_, pc, i_, n_, ret, runs,
          passes, firstOut, writes, call, result, reads>>

engineVars == <<graph_, inputs_, shapeMap_, outputShape_, pc, i_, n_, ret,
                runs, passes, firstOut, writes>>

harnessVars == <<call, result, reads>>

-----------------------------------------------------------------------------
(* Bounds of the model *)

\* largest rank of a shape drawn as an input
MaxRank == 3

\* dimension sizes of input shapes are 0..MaxDim
MaxDim == 2

\* ConstantChunk's chunks attribute is 1..MaxChunks
MaxChunks == 3

\* fusedConcat is called with 0..MaxCatInputs input shapes
MaxCatInputs == 3

\* run() calls made on one graph with one set of inputs
MaxRuns == 2

-----------------------------------------------------------------------------
(* Values *)

Max(a, b) == IF a >= b THEN a ELSE b

\* all sequences over S of length 0..n
SeqUpTo(S, n) == UNION {[1..k -> S] : k \in 0..n}

Shapes == SeqUpTo(0..MaxDim, MaxRank)

\* VariableMeta{shape, intValue} (ShapeInferenceEngine.h)
VariableMeta(shape, intValue) == [shape |-> shape, intValue |-> intValue]

TensorMeta(shape) == VariableMeta(shape, <<>>)

\* Expected<T>: a value or an Error; "crash" is a run that never returns
Ok(v) == [tag |-> "ok", val |-> v, err |-> ""]

Err(msg) == [tag |-> "err", val |-> <<>>, err |-> msg]

Crash == [tag |-> "crash", val |-> <<>>, err |-> "no return"]

\* int64_t division truncates toward zero
CDiv(a, b) ==
    IF (a >= 0) = (b > 0)
    THEN (IF a >= 0 THEN a ELSE -a) \div (IF b > 0 THEN b ELSE -b)
    ELSE -((IF a >= 0 THEN a ELSE -a) \div (IF b > 0 THEN b ELSE -b))

-----------------------------------------------------------------------------
(* Error messages of the rules (MAKE_ERR / RETURN_ERR_IF_NOT).  The spec's  *)
(* error kinds: ArityMismatch, ShapeMismatch, RankMismatch, DimOutOfRange.  *)

BinaryArityMsg == "Expected two or three inputs shapes of this operation."

BinaryMismatchMsg == "The size of tensor a must match the size of tensor b at non-singleton dimension 1."

MmArityMsg == "Expected two inputs shapes of this operation."

MmRankMsg == "Expected 2-dimensional tensor."

MmMismatchMsg == "The size of tensor a at dimension 1 must match the size of tensor b at dimension 0."

BmmRankMsg == "Expected 3-dimensional tensor."

BmmBatchMsg == "Expected tensors to have same size at dimension 0"

BmmMismatchMsg == "The size of tensor a at dimension 2 must match the size of tensor b at dimension 1"

AddmmArityMsg == "Expected at least three inputs shapes."

ChunkArityMsg == "Expected one input."

DimRangeMsg == "Dim value is out of range."

CatArityMsg == "Expected at least 1 inputs."

CatRankMsg == "All inputs must have the same number of dimensions."

CatMismatchMsg == "Sizes of tensors must match except in dimension."

UnaryArityMsg == "Expected 1 input shape for operators."

UnsupportedOpMsg == "Node's operator is not supported"

InputCountMsg == "Number of inputs mismatch between Graph and actual inputs"

InputKindMsg == "Input type doesn't support yet."

-----------------------------------------------------------------------------
(* binaryOp *)

\* What a read outside a vector's buffer may yield: some word of the heap.
Wild == {-1, 0, 33}

\* The iterations of binaryOp's loop that can index t1 below its first
\* element: t0 has size 1 at an aligned dimension t1 lacks.
WildIters(t0, t1) ==
    IF Len(t1) = 1 THEN {}
    ELSE {i \in 0..(Len(t0) - 1) : i >= Len(t1) /\ t0[Len(t0) - i] = 1}

\* The behaviours of memory outside t1 a call can meet: one word per
\* out-of-range read, or a fault.
Mems(t0, t1) ==
    [val : [WildIters(t0, t1) -> Wild],
     fault : IF WildIters(t0, t1) = {} THEN {FALSE} ELSE BOOLEAN]

\* A read v[k] of a std::vector of size Len(v): the index is a size_t, so
\* d + j with j = -1 - i < -d wraps to 2^64 + d + j; k < 0 stands for that
\* wrapped index.  In range it yields the element, out of range a wild word.
At(v, k, wild) == IF k \in 0..(Len(v) - 1) THEN v[k + 1] ELSE wild

ReadOf(name, v, k) == [of |-> name, index |-> k, size |-> Len(v)]

RECURSIVE binaryOpLoop(_, _, _, _, _, _)
binaryOpLoop(t0, t1, i, shape, rd, mem) ==
    LET d0 == Len(t0)
        d1 == Len(t1)
        dim == Max(d0, d1)
        j == -1 - i
        wild == IF i \in DOMAIN mem.val THEN mem.val[i] ELSE 0
        rd0 == IF i >= d0 THEN rd ELSE rd \cup {ReadOf("t0", t0, d0 + j)}
        rd1 == rd0 \cup {ReadOf("t1", t1, d1 + j)}
    IN  IF ~(i < dim)
        THEN [ret |-> Ok(shape), reads |-> rd]
        ELSE IF i >= d0 \/ At(t0, d0 + j, 0) = 1
        THEN IF ~(d1 + j \in 0..(d1 - 1)) /\ mem.fault
             THEN [ret |-> Crash, reads |-> rd1]
             ELSE binaryOpLoop(t0, t1, i + 1,
                               [shape EXCEPT ![dim + j + 1] = At(t1, d1 + j, wild)],
                               rd1, mem)
        ELSE IF i >= d1 \/ At(t1, d1 + j, 0) = 1
        THEN binaryOpLoop(t0, t1, i + 1,
                          [shape EXCEPT ![dim + j + 1] = At(t0, d0 + j, 0)],
                          IF i >= d1 THEN rd0 ELSE rd1, mem)
        ELSE IF At(t1, d1 + j, 0) # At(t0, d0 + j, 0)
        THEN [ret |-> Err(BinaryMismatchMsg), reads |-> rd1]
        ELSE binaryOpLoop(t0, t1, i + 1,
                          [shape EXCEPT ![dim + j + 1] = At(t1, d1 + j, 0)],
                          rd1, mem)

\* binaryOp with the reads it performed: [ret, reads]
binaryOpRun(varibableMetas, mem) ==
    IF Len(varibableMetas) # 2 /\ Len(varibableMetas) # 3
    THEN [ret |-> Err(BinaryArityMsg), reads |-> {}]
    ELSE LET t0 == varibableMetas[1].shape
             t1 == varibableMetas[2].shape
         IN  IF Len(t1) = 1
             THEN [ret |-> Ok(t0), reads |-> {}]
             ELSE binaryOpLoop(t0, t1, 0,
                               [k \in 1..Max(Len(t0), Len(t1)) |-> 0], {}, mem)

binaryOp(varibableMetas, mem) == binaryOpRun(varibableMetas, mem).ret

\* memory behaviours for a MetaStack handed to binaryOp
MemsOf(varibableMetas) ==
    IF Len(varibableMetas) >= 2
    THEN Mems(varibableMetas[1].shape, varibableMetas[2].shape)
    ELSE Mems(<<>>, <<>>)

-----------------------------------------------------------------------------
(* mm, bmm, addmm *)

mm(varibableMetas) ==
    IF Len(varibableMetas) # 2 THEN Err(MmArityMsg)
    ELSE LET t0 == varibableMetas[1].shape
             t1 == varibableMetas[2].shape
         IN  IF ~(Len(t1) = 2 /\ Len(t0) = 2) THEN Err(MmRankMsg)
             ELSE IF t0[2] # t1[1] THEN Err(MmMismatchMsg)
             ELSE Ok(<<t0[1], t1[2]>>)

bmm(varibableMetas) ==
    IF Len(varibableMetas) # 2 THEN Err(MmArityMsg)
    ELSE LET t0 == varibableMetas[1].shape
             t1 == varibableMetas[2].shape
         IN  IF ~(Len(t0) = 3 /\ Len(t1) = 3) THEN Err(BmmRankMsg)
             ELSE IF t0[1] # t1[1] THEN Err(BmmBatchMsg)
             ELSE IF t0[3] # t1[2] THEN Err(BmmMismatchMsg)
             ELSE Ok(<<t0[1], t0[2], t1[3]>>)

\* the second operand addmm hands to binaryOp: an Expected<VariableMeta>
addmmOperand(varibableMetas) ==
    IF Len(varibableMetas[3].shape) = 1
    THEN Ok(varibableMetas[2])
    ELSE LET r == mm(<<varibableMetas[2], varibableMetas[3]>>)
         IN  IF r.tag = "ok" THEN Ok(TensorMeta(r.val)) ELSE r

addmmRun(varibableMetas, mem) ==
    IF ~(Len(varibableMetas) >= 3)
    THEN [ret |-> Err(AddmmArityMsg), reads |-> {}]
    ELSE LET t == addmmOperand(varibableMetas)
         IN  IF t.tag # "ok" THEN [ret |-> t, reads |-> {}]
             ELSE binaryOpRun(<<varibableMetas[1], t.val>>, mem)

addmm(varibableMetas, mem) == addmmRun(varibableMetas, mem).ret

\* memory behaviours for a MetaStack handed to addmm
MemsOfAddmm(varibableMetas) ==
    IF Len(varibableMetas) >= 3 /\ addmmOperand(varibableMetas).tag = "ok"
    THEN Mems(varibableMetas[1].shape, addmmOperand(varibableMetas).val.shape)
    ELSE Mems(<<>>, <<>>)

-----------------------------------------------------------------------------
(* constantChunk *)

\* constantChunk with the per-chunk size rounded down instead of up
constantChunkFloor(varibableMetas, chunks, dim) ==
    IF ~(Len(varibableMetas) = 1) THEN Err(ChunkArityMsg)
    ELSE LET shape0 == varibableMetas[1].shape
             d == IF dim < 0 THEN dim + Len(shape0) ELSE dim
         IN  IF ~(d < Len(shape0) /\ d >= 0) THEN Err(DimRangeMsg)
             ELSE LET c == CDiv(shape0[d + 1], chunks)
                      r == shape0[d + 1] - c * (chunks - 1)
                  IN  Ok([i \in 1..chunks |->
                            [shape0 EXCEPT ![d + 1] = IF i = chunks THEN r ELSE c]])

constantChunk(varibableMetas, chunks, dim) ==
    IF ~(Len(varibableMetas) = 1) THEN Err(ChunkArityMsg)
    ELSE LET shape0 == varibableMetas[1].shape
             \* Convert dim into positive
             d == IF dim < 0 THEN dim + Len(shape0) ELSE dim
         IN  \* dim < shape.size() compares as size_t: a negative d is a
             \* huge unsigned value, so the test fails for it either way
             IF ~(d < Len(shape0) /\ d >= 0) THEN Err(DimRangeMsg)
             ELSE LET c == CDiv(shape0[d + 1] + chunks - 1, chunks)
                      r == shape0[d + 1] - c * (chunks - 1)
                  IN  Ok([i \in 1..chunks |->
                            [shape0 EXCEPT ![d + 1] = IF i = chunks THEN r ELSE c]])

-----------------------------------------------------------------------------
(* fusedConcat *)

\* the loop over j with shape[dim] assigned instead of accumulated
RECURSIVE fusedConcatDimsAssign(_, _, _, _, _)
fusedConcatDimsAssign(shape, other, dim, inDims, j) ==
    IF ~(j < inDims) THEN Ok(shape)
    ELSE IF j = dim
    THEN fusedConcatDimsAssign([shape EXCEPT ![dim + 1] = other[dim + 1]],
                               other, dim, inDims, j + 1)
    ELSE IF ~(shape[j + 1] = other[j + 1]) THEN Err(CatMismatchMsg)
    ELSE fusedConcatDimsAssign(shape, other, dim, inDims, j + 1)

\* the loop over j for one later input: Expected<shape>
RECURSIVE fusedConcatDims(_, _, _, _, _)
fusedConcatDims(shape, other, dim, inDims, j) ==
    IF ~(j < inDims) THEN Ok(shape)
    ELSE IF j = dim
    THEN fusedConcatDims([shape EXCEPT ![dim + 1] = @ + other[dim + 1]],
                         other, dim, inDims, j + 1)
    ELSE IF ~(shape[j + 1] = other[j + 1]) THEN Err(CatMismatchMsg)
    ELSE fusedConcatDims(shape, other, dim, inDims, j + 1)

\* the loop over the later inputs, i = 1 .. size - 1
RECURSIVE fusedConcatLoop(_, _, _, _, _)
fusedConcatLoop(varibableMetas, shape, dim, inDims, i) ==
    IF ~(i < Len(varibableMetas)) THEN Ok(shape)
    ELSE IF ~(inDims = Len(varibableMetas[i + 1].shape)) THEN Err(CatRankMsg)
    ELSE LET r == fusedConcatDims(shape, varibableMetas[i + 1].shape, dim, inDims, 0)
         IN  IF r.tag # "ok" THEN r
             ELSE fusedConcatLoop(varibableMetas, r.val, dim, inDims, i + 1)

fusedConcat(varibableMetas, dim) ==
    IF ~(Len(varibableMetas) >= 1) THEN Err(CatArityMsg)
    ELSE IF Len(varibableMetas) = 1 THEN Ok(varibableMetas[1].shape)
    ELSE LET shape == varibableMetas[1].shape
             inDims == Len(shape)
             d == IF dim < 0 THEN dim + inDims ELSE dim
         IN  IF ~(d < inDims /\ d >= 0) THEN Err(DimRangeMsg)
             ELSE fusedConcatLoop(varibableMetas, shape, d, inDims, 1)

-----------------------------------------------------------------------------
(* Graph, nodes and inputs (torch::jit::Graph, torch::jit::Node, at::IValue) *)

Node(kind, ins, outs) ==
    [kind |-> kind, inputs |-> ins, outputs |-> outs,
     type |-> "", value |-> 0, sizes |-> <<>>, dim |-> 0, chunks |-> 0]

\* prim::Constant with an output type and a value attribute
Constant(type, value, sizes, out) ==
    [Node("prim::Constant", <<>>, <<out>>) EXCEPT
        !.type = type, !.value = value, !.sizes = sizes]

UnaryKinds == {"aten::tanh", "aten::relu", "aten::sigmoid"}

BinaryKinds == {"aten::sub", "aten::pow", "aten::mul", "aten::add"}

\* at::IValue: a tensor (sizes), a bool or an int (ints = <<toInt()>>), an
\* int list (ints), or something else
IValue(tag, sizes, ints) == [tag |-> tag, sizes |-> sizes, ints |-> ints]

\* the value identities of a graph
ValuesOf(graph) ==
    {graph.inputs[k] : k \in 1..Len(graph.inputs)}
        \cup UNION {{graph.nodes[k].outputs[o] : o \in 1..Len(graph.nodes[k].outputs)} :
                        k \in 1..Len(graph.nodes)}

-----------------------------------------------------------------------------
(* primConstant *)

primConstant(node) ==
    IF node.type = "float" THEN <<1>>
    ELSE IF node.type = "int" THEN <<node.value>>
    ELSE IF node.type = "bool" THEN <<node.value>>
    ELSE IF node.type = "none" THEN <<>>
    ELSE IF node.type = "tensor" THEN node.sizes
    ELSE <<>>

-----------------------------------------------------------------------------
(* shapeOnNode *)

\* Expected<shape> as the vector outputShapesOrValues
AsVector(r) == IF r.tag = "ok" THEN Ok(<<r.val>>) ELSE r

\* the switch over the node's kind: Expected<outputShapesOrValues>
shapeOnNodeRule(node, inputMetas, mem) ==
    IF node.kind = "prim::Constant" THEN Ok(<<primConstant(node)>>)
    ELSE IF node.kind \in UnaryKinds
    THEN IF ~(Len(inputMetas) = 1) THEN Err(UnaryArityMsg)
         ELSE Ok(<<inputMetas[1].shape>>)
    ELSE IF node.kind \in BinaryKinds THEN AsVector(binaryOp(inputMetas, mem))
    ELSE IF node.kind = "aten::mm" THEN AsVector(mm(inputMetas))
    ELSE IF node.kind = "aten::addmm" THEN AsVector(addmm(inputMetas, mem))
    ELSE IF node.kind = "aten::bmm" THEN AsVector(bmm(inputMetas))
    ELSE IF node.kind = "prim::FusedConcat" THEN AsVector(fusedConcat(inputMetas, node.dim))
    ELSE IF node.kind = "prim::ConstantChunk"
    THEN constantChunk(inputMetas, node.chunks, node.dim)
    ELSE Err(UnsupportedOpMsg)

\* the memory behaviours the rule of a node can meet
NodeMems(node, inputMetas) ==
    IF node.kind \in BinaryKinds THEN MemsOf(inputMetas)
    ELSE IF node.kind = "aten::addmm" THEN MemsOfAddmm(inputMetas)
    ELSE Mems(<<>>, <<>>)

\* getNodeInputShape: the metas of the node's inputs
getNodeInputShape(node, map) ==
    [k \in 1..Len(node.inputs) |-> map[node.inputs[k]]]

\* shapeMap_[id].shape = shape: operator[] creates a missing entry
SetShape(map, id, shape) ==
    (id :> VariableMeta(shape, IF id \in DOMAIN map THEN map[id].intValue ELSE <<>>)) @@ map

\* shapeOnNode writing to the node's first input instead of its outputs
OutputIdsFirstInput(node) ==
    IF node.inputs # <<>> THEN <<node.inputs[1]>> ELSE node.outputs

\* the identities shapeOnNode writes: node->outputs()
OutputIds(node) == node.outputs

RECURSIVE StoreShapes(_, _, _, _)
StoreShapes(map, ids, shapes, k) ==
    IF k > Len(ids) THEN map
    ELSE StoreShapes(SetShape(map, ids[k], shapes[k]), ids, shapes, k + 1)

\* "Put output into map"
StoreOutputs(map, node, outputShapesOrValues) ==
    IF node.kind = "prim::Constant"
    THEN IF node.type = "tensor"
         THEN SetShape(map, OutputIds(node)[1], outputShapesOrValues[1])
         ELSE (OutputIds(node)[1] :> VariableMeta(<<1>>, outputShapesOrValues[1])) @@ map
    ELSE StoreShapes(map, OutputIds(node), outputShapesOrValues, 1)

\* shapeOnNode going on to "Put output into map" after a rule's error,
\* with outputShapesOrValues as constructed: one empty vector
StoreAfterRuleNoReturn(map, node, r) ==
    IF r.tag = "ok" THEN StoreOutputs(map, node, r.val)
    ELSE SetShape(map, node.outputs[1], <<>>)

\* shapeMap_ after shapeOnNode got r from the node's rule
StoreAfterRule(map, node, r) ==
    IF r.tag = "ok" THEN StoreOutputs(map, node, r.val) ELSE map

-----------------------------------------------------------------------------
(* getGraphIntputShape: the entry of one graph input *)

\* an int list stored with shape {N} instead of {N, 1}
graphInputMetaFlat(input) ==
    IF input.tag = "Tensor" THEN VariableMeta(input.sizes, <<>>)
    ELSE IF input.tag = "Bool" \/ input.tag = "Int" THEN VariableMeta(<<1>>, input.ints)
    ELSE IF input.tag = "IntList" THEN VariableMeta(<<Len(input.ints)>>, input.ints)
    ELSE VariableMeta(<<>>, <<>>)

graphInputMeta(input) ==
    IF input.tag = "Tensor" THEN VariableMeta(input.sizes, <<>>)
    ELSE IF input.tag = "Bool" \/ input.tag = "Int" THEN VariableMeta(<<1>>, input.ints)
    ELSE IF input.tag = "IntList" THEN VariableMeta(<<Len(input.ints), 1>>, input.ints)
    ELSE VariableMeta(<<>>, <<>>)

graphInputSupported(input) == input.tag \in {"Tensor", "Bool", "Int", "IntList"}

-----------------------------------------------------------------------------
(* Rule harness: one call of a rule on inputs drawn from bounded sets *)

NoCall == [rule |-> "none", varibableMetas |-> <<>>, dim |-> 0, chunks |-> 0]

NoResult == [tag |-> "none", val |-> <<>>, err |-> ""]

\* a scalar operand (alpha, beta): shape {1} and its value
ScalarMeta == VariableMeta(<<1>>, <<1>>)

EngineIdle ==
    /\ graph_ = [inputs |-> <<>>, nodes |-> <<>>, outputs |-> <<>>]
    /\ inputs_ = <<>>
    /\ shapeMap_ = <<>>
    /\ outputShape_ = <<>>
    /\ pc = "unused"
    /\ i_ = 0
    /\ n_ = 0
    /\ ret = [tag |-> "none", val |-> <<>>, err |-> ""]
    /\ runs = 0
    /\ passes = 0
    /\ firstOut = [set |-> FALSE, val |-> <<>>]
    /\ writes = <<>>

InitRules ==
    /\ EngineIdle
    /\ call = NoCall
    /\ result = NoResult
    /\ reads = {}

\* the shapes of the broadcasting examples
ExampleShapes == {<<5, 1, 3>>, <<4, 3>>, <<1, 4, 3>>, <<2, 1>>, <<3>>}

\* binaryOp on a MetaStack of 0..4 entries: two shapes and up to two scalars
CallBinaryOp ==
    /\ call = NoCall
    /\ \E t0 \in Shapes \cup ExampleShapes, t1 \in Shapes \cup ExampleShapes, k \in 0..4 :
         LET metas == SubSeq(<<TensorMeta(t0), TensorMeta(t1), ScalarMeta, ScalarMeta>>, 1, k)
         IN  \E mem \in MemsOf(metas) :
                /\ call' = [rule |-> "binaryOp", varibableMetas |-> metas,
                            dim |-> 0, chunks |-> 0]
                /\ result' = binaryOp(metas, mem)
                /\ reads' = binaryOpRun(metas, mem).reads
    /\ UNCHANGED engineVars

\* addmm on (bias, mat1, mat2): mat1 and mat2 of rank 1 or 2
CallAddmm ==
    /\ call = NoCall
    /\ \E t0 \in Shapes, t1 \in SeqUpTo(1..MaxDim, 2), t2 \in SeqUpTo(1..MaxDim, 2),
          k \in 2..4 :
         LET metas == SubSeq(<<TensorMeta(t0), TensorMeta(t1), TensorMeta(t2), ScalarMeta>>, 1, k)
         IN  \E mem \in MemsOfAddmm(metas) :
                /\ call' = [rule |-> "addmm", varibableMetas |-> metas,
                            dim |-> 0, chunks |-> 0]
                /\ result' = addmm(metas, mem)
                /\ reads' = addmmRun(metas, mem).reads
    /\ UNCHANGED engineVars

CallConstantChunk ==
    /\ call = NoCall
    /\ \E s \in Shapes, chunks \in 1..MaxChunks, dim \in (-MaxRank - 1)..MaxRank,
          k \in 0..2 :
         LET metas == SubSeq(<<TensorMeta(s), TensorMeta(s)>>, 1, k)
         IN  /\ call' = [rule |-> "constantChunk", varibableMetas |-> metas,
                         dim |-> dim, chunks |-> chunks]
             /\ result' = constantChunk(metas, chunks, dim)
             /\ reads' = {}
    /\ UNCHANGED engineVars

\* the shapes fusedConcat is called on: rank 0..2
CatShapes == SeqUpTo({0, 1, MaxDim}, 2)

CallFusedConcat ==
    /\ call = NoCall
    /\ \E shapes \in SeqUpTo(CatShapes, MaxCatInputs), dim \in -3..2 :
         LET metas == [k \in 1..Len(shapes) |-> TensorMeta(shapes[k])]
         IN  /\ call' = [rule |-> "fusedConcat", varibableMetas |-> metas,
                         dim |-> dim, chunks |-> 0]
             /\ result' = fusedConcat(metas, dim)
             /\ reads' = {}
    /\ UNCHANGED engineVars

NextBroadcast == CallBinaryOp \/ CallAddmm

SpecBroadcast == InitRules /\ [][NextBroadcast]_vars

SpecChunk == InitRules /\ [][CallConstantChunk]_vars

SpecConcat == InitRules /\ [][CallFusedConcat]_vars

-----------------------------------------------------------------------------
(* The graphs and inputs the engine is run on *)

\* the sizes of the constant tensors of the graphs
ConstSizes == {<<>>, <<2>>, <<3, 2>>, <<1, 2, 2>>}

\* prim::Constant nodes of every output type
Constants(out) ==
    {Constant("float", 0, <<>>, out), Constant("int", 2, <<>>, out),
     Constant("bool", 1, <<>>, out), Constant("none", 0, <<>>, out),
     Constant("string", 0, <<>>, out)}
        \cup {Constant("tensor", 0, sizes, out) : sizes \in ConstSizes}

Graph(ins, nodes, outs) == [inputs |-> ins, nodes |-> nodes, outputs |-> outs]

\* %4 = aten::add(%1, %2, %3) with constants %2 and %3 (alpha)
BinaryGraphs ==
    {Graph(<<1>>,
           <<c, Constant("int", 1, <<>>, 3), Node(kind, <<1, 2, 3>>, <<4>>)>>,
           <<4>>) : c \in Constants(2), kind \in BinaryKinds}

\* %3 = op(%1, %2); %4 = aten::tanh(%3)
PairGraphs ==
    {Graph(<<1, 2>>,
           <<Node(kind, <<1, 2>>, <<3>>), Node("aten::tanh", <<3>>, <<4>>)>>,
           <<4, 3>>) : kind \in {"aten::mul", "aten::mm", "aten::bmm"}}
        \cup
    {Graph(<<1, 2>>,
           <<[Node("prim::FusedConcat", <<1, 2>>, <<3>>) EXCEPT !.dim = d],
             Node("aten::tanh", <<3>>, <<4>>)>>,
           <<4, 3>>) : d \in {-1, 0, 2}}

\* %2, .. = prim::ConstantChunk[chunks, dim](%1); prim::FusedConcat[dim] of them
ChunkGraphs ==
    {Graph(<<1>>,
           <<[Node("prim::ConstantChunk", <<1>>, [k \in 1..c |-> 1 + k])
                EXCEPT !.chunks = c, !.dim = d],
             [Node("prim::FusedConcat", [k \in 1..c |-> 1 + k], <<2 + c>>)
                EXCEPT !.dim = d]>>,
           <<2 + c, 2>>) : c \in 1..MaxChunks, d \in {-1, 0, 1}}

\* %5 = aten::addmm(%3, %2, %4) with %2 = relu(%1) and constants %3, %4
AddmmGraphs ==
    {Graph(<<1>>,
           <<Node("aten::relu", <<1>>, <<2>>), Constant("tensor", 0, bias, 3), mat2,
             Node("aten::addmm", <<3, 2, 4>>, <<5>>),
             Node("aten::sigmoid", <<5>>, <<6>>)>>,
           <<6>>) :
        bias \in ConstSizes,
        mat2 \in {Constant("tensor", 0, <<2, 2>>, 4), Constant("int", 1, <<>>, 4)}}

\* an operator without a rule, a node of the wrong arity, in mid-graph
FailingGraphs ==
    {Graph(<<1>>,
           <<Node("aten::relu", <<1>>, <<2>>),
             [Node(kind, ins, <<3>>) EXCEPT !.chunks = 1],
             Node("aten::tanh", <<3>>, <<4>>)>>,
           <<4>>) :
        kind \in {"aten::conv2d", "aten::tanh", "aten::add", "aten::mm", "aten::bmm",
                  "aten::addmm", "prim::FusedConcat", "prim::ConstantChunk"},
        ins \in {<<>>, <<2>>}}

\* a graph whose nodes are not in topological order
UnorderedGraphs ==
    {Graph(<<1>>,
           <<Node("aten::tanh", <<3>>, <<2>>), Node("aten::relu", <<1>>, <<3>>)>>,
           <<2>>)}

Graphs ==
    BinaryGraphs \cup PairGraphs \cup ChunkGraphs \cup AddmmGraphs
        \cup FailingGraphs \cup UnorderedGraphs

\* the instances bound to graph inputs
Instances ==
    {IValue("Tensor", sizes, <<>>) : sizes \in SeqUpTo({1, MaxDim}, MaxRank)}
        \cup {IValue("Bool", <<>>, <<b>>) : b \in {0, 1}}
        \cup {IValue("Int", <<>>, <<v>>) : v \in {-1, 2}}
        \cup {IValue("IntList", <<>>, ints) : ints \in {<<>>, <<3>>, <<2, 0>>}}
        \cup {IValue("Double", <<>>, <<>>)}

\* one instance per graph input, or one instance too few or too many
InputsFor(graph) ==
    [1..Len(graph.inputs) -> Instances]
        \cup {[k \in 1..m |-> IValue("Tensor", <<>>, <<>>)] :
                 m \in {Len(graph.inputs) + 1} \cup ({Len(graph.inputs) - 1} \ {-1})}

-----------------------------------------------------------------------------
(* The engine: run *)

NoOut == [set |-> FALSE, val |-> <<>>]

Init ==
    /\ graph_ \in Graphs
    /\ inputs_ \in InputsFor(graph_)
    /\ shapeMap_ = <<>>
    /\ outputShape_ = <<>>
    /\ pc = "idle"
    /\ i_ = 0
    /\ n_ = 0
    /\ ret = NoResult
    /\ runs = 0
    /\ passes = 0
    /\ firstOut = NoOut
    /\ writes = [v \in ValuesOf(graph_) |-> 0]
    /\ call = NoCall
    /\ result = NoResult
    /\ reads = {}

\* where run() goes once the graph inputs are in the map
AfterInputs == IF Len(graph_.nodes) > 0 THEN "nodes" ELSE "outputs"

\* run() is called: the count of the inputs is checked
Run ==
    /\ pc \in {"idle", "done", "failed"}
    /\ passes < MaxRuns
    /\ runs' = runs + 1
    /\ passes' = passes + 1
    /\ writes' = [v \in ValuesOf(graph_) |-> 0]
    /\ i_' = 0
    /\ IF ~(Len(inputs_) = Len(graph_.inputs))
       THEN /\ pc' = "failed"
            /\ ret' = Err(InputCountMsg)
            /\ n_' = 0
       ELSE /\ pc' = IF Len(inputs_) > 0 THEN "inputs" ELSE AfterInputs
            /\ ret' = NoResult
            /\ n_' = IF Len(inputs_) > 0 THEN 0 ELSE 1
    /\ UNCHANGED <<graph_, inputs_, shapeMap_, outputShape_, firstOut, harnessVars>>

\* one iteration of the loop of getGraphIntputShape
GetGraphInputShape ==
    /\ pc = "inputs"
    /\ LET gInName == graph_.inputs[i_ + 1]
           input == inputs_[i_ + 1]
       IN  /\ shapeMap_' = (gInName :> graphInputMeta(input)) @@ shapeMap_
           /\ writes' = [writes EXCEPT ![gInName] = @ + 1]
           /\ IF graphInputSupported(input)
              THEN /\ i_' = i_ + 1
                   /\ pc' = IF i_ + 1 < Len(inputs_) THEN "inputs" ELSE AfterInputs
                   /\ n_' = IF i_ + 1 < Len(inputs_) THEN 0 ELSE 1
                   /\ ret' = ret
              ELSE /\ pc' = "failed"
                   /\ ret' = Err(InputKindMsg)
                   /\ UNCHANGED <<i_, n_>>
    /\ UNCHANGED <<graph_, inputs_, outputShape_, runs, passes, firstOut, harnessVars>>

\* shapeOnNode on the node run() is at
ShapeOnNode ==
    /\ pc = "nodes"
    /\ LET node == graph_.nodes[n_]
       IN  IF \E k \in 1..Len(node.inputs) : node.inputs[k] \notin DOMAIN shapeMap_
           THEN \* CHECK(it != shapeMap_.end()) aborts the process
                /\ pc' = "aborted"
                /\ ret' = Crash
                /\ UNCHANGED <<shapeMap_, writes, n_>>
           ELSE LET inputMetas == getNodeInputShape(node, shapeMap_)
                IN  \E mem \in NodeMems(node, inputMetas) :
                       LET rule == shapeOnNodeRule(node, inputMetas, mem)
                           \* outputShapesOrValues[i] past its end is no vector
                           r == IF rule.tag = "ok" /\ Len(rule.val) < Len(node.outputs)
                                THEN Crash ELSE rule
                       IN  /\ shapeMap_' = StoreAfterRule(shapeMap_, node, r)
                           /\ writes' =
                                 IF r.tag = "ok"
                                 THEN [v \in DOMAIN writes |->
                                         writes[v] + Cardinality(
                                            {k \in 1..Len(OutputIds(node)) :
                                                OutputIds(node)[k] = v})]
                                 ELSE writes
                           /\ IF r.tag = "ok"
                              THEN /\ pc' = IF n_ < Len(graph_.nodes) THEN "nodes" ELSE "outputs"
                                   /\ n_' = n_ + 1
                                   /\ ret' = ret
                              ELSE /\ pc' = IF r.tag = "err" THEN "failed" ELSE "aborted"
                                   /\ ret' = r
                                   /\ n_' = n_
    /\ UNCHANGED <<graph_, inputs_, outputShape_, i_, runs, passes, firstOut, harnessVars>>

\* generateGraphOutputShape, and run() returns success
GenerateGraphOutputShape ==
    /\ pc = "outputs"
    /\ IF \E k \in 1..Len(graph_.outputs) : graph_.outputs[k] \notin DOMAIN shapeMap_
       THEN /\ pc' = "aborted"
            /\ ret' = Crash
            /\ UNCHANGED <<outputShape_, firstOut>>
       ELSE /\ outputShape_' =
                 outputShape_ \o [k \in 1..Len(graph_.outputs) |->
                                     shapeMap_[graph_.outputs[k]].shape]
            /\ pc' = "done"
            /\ ret' = Ok(<<>>)
            /\ firstOut' = IF firstOut.set THEN firstOut
                           ELSE [set |-> TRUE, val |-> outputShape_']
    /\ UNCHANGED <<graph_, inputs_, shapeMap_, i_, n_, runs, passes, writes, harnessVars>>

\* a fresh engine is constructed on the same graph and inputs
NewEngine ==
    /\ pc \in {"done", "failed"}
    /\ passes < MaxRuns
    /\ shapeMap_' = <<>>
    /\ outputShape_' = <<>>
    /\ pc' = "idle"
    /\ runs' = 0
    /\ i_' = 0
    /\ n_' = 0
    /\ ret' = NoResult
    /\ writes' = [v \in ValuesOf(graph_) |-> 0]
    /\ UNCHANGED <<graph_, inputs_, passes, firstOut, harnessVars>>

\* run() on a newly constructed engine
FirstRun == pc = "idle" /\ Run

\* one pass of one engine
Next ==
    \/ FirstRun
    \/ GetGraphInputShape
    \/ ShapeOnNode
    \/ GenerateGraphOutputShape

Spec == Init /\ [][Next]_vars

\* up to MaxRuns passes on one graph and one set of inputs, run() called
\* again on the same engine or on a fresh one
NextRerun ==
    \/ Run
    \/ GetGraphInputShape
    \/ ShapeOnNode
    \/ GenerateGraphOutputShape
    \/ NewEngine

SpecRerun == Init /\ [][NextRerun]_vars

-----------------------------------------------------------------------------
(* Properties of the rules *)

\* the size operand t has at the aligned dimension i (0 = rightmost), or
\* -1 when t lacks that dimension
Aligned(t, i) == IF i < Len(t) THEN t[Len(t) - i] ELSE -1

\* the aligned dimensions at which two shapes cannot be broadcast
Clashes(t0, t1) ==
    {i \in 0..(Max(Len(t0), Len(t1)) - 1) :
        /\ Aligned(t0, i) \notin {-1, 1}
        /\ Aligned(t1, i) \notin {-1, 1}
        /\ Aligned(t0, i) # Aligned(t1, i)}

\* the broadcast of two shapes that do not clash
Broadcast(t0, t1) ==
    LET dim == Max(Len(t0), Len(t1))
    IN  [p \in 1..dim |->
            LET a == Aligned(t0, dim - p)
                b == Aligned(t1, dim - p)
            IN  IF a = -1 THEN b
                ELSE IF b = -1 THEN a
                ELSE IF a = 1 THEN b
                ELSE a]

IsBinaryCall == call.rule = "binaryOp" /\ Len(call.varibableMetas) \in {2, 3}

\* C1: for every t0, t1 with rank(t1) # 1, binaryOp returns the broadcast
\* of t0 and t1 aligned on their trailing dimensions (rank max(d0, d1); the
\* other operand's size where one operand lacks the dimension or has size
\* 1; the common size otherwise), or a ShapeMismatch error when two sizes
\* other than 1 differ.  The calls drawn include broadcast([5,1,3],[4,3]),
\* which is to give [5,4,3], and broadcast([1,4,3],[4,3]), which is to
\* give [1,4,3].
C1_BroadcastRule ==
    (IsBinaryCall /\ Len(call.varibableMetas[2].shape) # 1) =>
          LET t0 == call.varibableMetas[1].shape
              t1 == call.varibableMetas[2].shape
          IN  result = IF Clashes(t0, t1) # {} THEN Err(BinaryMismatchMsg)
                       ELSE Ok(Broadcast(t0, t1))

\* C2: whenever binaryOp(A, B) and binaryOp(B, A) both succeed they return
\* the same shape, shapes of rank 1 included.
C2_Commutative ==
    (IsBinaryCall /\ result.tag = "ok") =>
        LET swapped == <<call.varibableMetas[2], call.varibableMetas[1]>>
        IN  \A mem \in MemsOf(swapped) :
               binaryOp(swapped, mem).tag = "ok" => binaryOp(swapped, mem) = result

\* C10: every element read of binaryOp's loop, called directly or by addmm,
\* has its index within the bounds of the shape it reads.
C10_IndexSafe ==
    \A r \in reads : r.index >= 0 /\ r.index < r.size

-----------------------------------------------------------------------------

\* ceil(a / b) for a >= 0, b >= 1
Ceil(a, b) == CHOOSE q \in 0..a : q * b >= a /\ (q = 0 \/ (q - 1) * b < a)

\* C8: constantChunk fails with ArityMismatch unless it has exactly one
\* input and with DimOutOfRange unless dim, plus the rank when negative, is
\* in [0, rank); otherwise it returns exactly `chunks` shapes, each the
\* input shape except at dim, where every chunk but the last has
\* ceil(S[dim] / chunks) and the last S[dim] - ceil(S[dim] / chunks) *
\* (chunks - 1); split([10,8], dim 0, 3 chunks) = [[4,8],[4,8],[2,8]].
C8_ChunkRule ==
    /\ call.rule = "constantChunk" =>
          IF Len(call.varibableMetas) # 1 THEN result = Err(ChunkArityMsg)
          ELSE LET S == call.varibableMetas[1].shape
                   nd == IF call.dim < 0 THEN call.dim + Len(S) ELSE call.dim
               IN  IF nd \notin 0..(Len(S) - 1) THEN result = Err(DimRangeMsg)
                   ELSE /\ result.tag = "ok"
                        /\ Len(result.val) = call.chunks
                        /\ \A k \in 1..call.chunks :
                              /\ Len(result.val[k]) = Len(S)
                              /\ \A p \in 1..Len(S) :
                                    result.val[k][p] =
                                        IF p # nd + 1 THEN S[p]
                                        ELSE IF k < call.chunks
                                        THEN Ceil(S[p], call.chunks)
                                        ELSE S[p] - Ceil(S[p], call.chunks) * (call.chunks - 1)
    /\ constantChunk(<<TensorMeta(<<10, 8>>)>>, 3, 0) = Ok(<<<<4, 8>>, <<4, 8>>, <<2, 8>>>>)

\* a split along a negative dim whose last chunk is smaller than the others
C8_Witness ==
    /\ call.rule = "constantChunk"
    /\ call.dim < 0
    /\ call.chunks = 3
    /\ result.tag = "ok"
    /\ result.val[3] # result.val[1]

-----------------------------------------------------------------------------

RECURSIVE SumAt(_, _, _)
SumAt(varibableMetas, p, k) ==
    IF k = 0 THEN 0 ELSE varibableMetas[k].shape[p] + SumAt(varibableMetas, p, k - 1)

-----------------------------------------------------------------------------
(* Properties of the engine *)

NodeOutputs(k) ==
    {graph_.nodes[k].outputs[o] : o \in 1..Len(graph_.nodes[k].outputs)}

\* every ConstantChunk node has chunks >= 1 and a dim within the rank of
\* its input
ValidSplits ==
    \A k \in 1..Len(graph_.nodes) :
        LET node == graph_.nodes[k]
        IN  node.kind = "prim::ConstantChunk" =>
              /\ node.chunks >= 1
              /\ (Len(node.inputs) >= 1 /\ node.inputs[1] \in DOMAIN shapeMap_) =>
                    LET rank == Len(shapeMap_[node.inputs[1]].shape)
                    IN  node.dim \in (0 - rank)..(rank - 1)

\* C3: in a pass whose graph inputs are all tensors (of non-negative
\* sizes) and whose ConstantChunk nodes have chunks >= 1 and a valid dim,
\* every shape in shapeMap_, the shapes written for a ConstantChunk node
\* included, is a sequence of non-negative integers.
C3_ShapesNonNegative ==
    ((\A k \in 1..Len(inputs_) : inputs_[k].tag = "Tensor") /\ ValidSplits) =>
        \A v \in DOMAIN shapeMap_ :
            \A p \in 1..Len(shapeMap_[v].shape) : shapeMap_[v].shape[p] >= 0

\* C4: every entry of shapeMap_ with a non-empty intValue is a bool or int
\* graph input or an int, bool or float constant with shape [1] and one
\* value, or an int list graph input of length N with shape [N, 1] and the
\* list as intValue; the outputs of all other nodes have an empty intValue.
C4_ScalarPayload ==
    \A v \in DOMAIN shapeMap_ :
        LET m == shapeMap_[v]
        IN  m.intValue # <<>> =>
              \/ \E k \in 1..Len(graph_.inputs) :
                    /\ graph_.inputs[k] = v
                    /\ k <= Len(inputs_)
                    /\ \/ /\ inputs_[k].tag \in {"Bool", "Int"}
                          /\ m.shape = <<1>>
                          /\ Len(m.intValue) = 1
                       \/ /\ inputs_[k].tag = "IntList"
                          /\ m.shape = <<Len(inputs_[k].ints), 1>>
                          /\ m.intValue = inputs_[k].ints
              \/ \E k \in 1..Len(graph_.nodes) :
                    /\ v \in NodeOutputs(k)
                    /\ graph_.nodes[k].kind = "prim::Constant"
                    /\ graph_.nodes[k].type \in {"int", "bool", "float"}
                    /\ m.shape = <<1>>
                    /\ Len(m.intValue) = 1

\* a finished pass over an int list input of length 2, an int constant
\* and the output of a binary node
C4_Witness ==
    /\ pc = "done"
    /\ \E k \in 1..Len(inputs_) :
          /\ inputs_[k].tag = "IntList"
          /\ shapeMap_[graph_.inputs[k]].shape = <<2, 1>>
    /\ \E k \in 1..Len(graph_.nodes) :
          /\ graph_.nodes[k].type = "int"
          /\ shapeMap_[graph_.nodes[k].outputs[1]].intValue = <<2>>
    /\ \E k \in 1..Len(graph_.nodes) :
          /\ graph_.nodes[k].kind \in BinaryKinds
          /\ graph_.nodes[k].outputs[1] \in DOMAIN shapeMap_

\* C5: after a second successful run() on the same graph and inputs, on a
\* fresh engine or on the same one, getGraphOutputShape() is the sequence
\* the first run left: one shape per declared graph output.
C5_Idempotent ==
    (pc = "done" /\ passes = 2) =>
        /\ outputShape_ = firstOut.val
        /\ Len(outputShape_) = Len(graph_.outputs)

\* the error the rule of the node run() is at returns, if it returns one
RuleError ==
    IF pc = "nodes" /\ \A k \in 1..Len(graph_.nodes[n_].inputs) :
                          graph_.nodes[n_].inputs[k] \in DOMAIN shapeMap_
    THEN LET node == graph_.nodes[n_]
             inputMetas == getNodeInputShape(node, shapeMap_)
             r == shapeOnNodeRule(node, inputMetas,
                                  CHOOSE mem \in NodeMems(node, inputMetas) : TRUE)
         IN  IF r.tag = "err" THEN r ELSE NoResult
    ELSE NoResult

C6_Failed ==
    pc = "failed" =>
        /\ ret.tag = "err"
        /\ outputShape_ = <<>>
        /\ \A k \in Max(n_, 1)..Len(graph_.nodes) : NodeOutputs(k) \cap DOMAIN shapeMap_ = {}
        /\ ret.err = InputCountMsg => shapeMap_ = <<>>

C6_Step ==
    /\ pc # "failed"
    /\ (pc = "idle" /\ Len(inputs_) # Len(graph_.inputs)) =>
          pc' = "failed" /\ ret' = Err(InputCountMsg)
    /\ (pc = "inputs" /\ ~graphInputSupported(inputs_[i_ + 1])) =>
          pc' = "failed" /\ ret' = Err(InputKindMsg)
    /\ RuleError.tag = "err" =>
          /\ pc' = "failed"
          /\ ret' = RuleError
          /\ n_' = n_
          /\ shapeMap_' = shapeMap_
    /\ pc' = "failed" => outputShape_' = outputShape_

\* C6: when run() fails (input count, input kind, unsupported operator or
\* a rule's error at node k) it returns that error, the failing node and
\* the nodes after it have written no entry, nothing more is dispatched,
\* outputShape_ stays empty, and after an input-count mismatch shapeMap_
\* is still empty.
C6_FirstErrorAborts == []C6_Failed /\ [][C6_Step]_vars

\* a pass failed at a node after an earlier node was dispatched, with a
\* node left
C6_Witness ==
    /\ pc = "failed"
    /\ n_ >= 2
    /\ n_ < Len(graph_.nodes)
    /\ NodeOutputs(1) \subseteq DOMAIN shapeMap_

C7_Once ==
    /\ \A v \in DOMAIN writes :
          /\ writes[v] <= 1
          /\ writes[v] = 1 <=> v \in DOMAIN shapeMap_
    /\ pc = "done" => \A v \in ValuesOf(graph_) : writes[v] = 1

C7_Step ==
    /\ \A v \in DOMAIN shapeMap_ :
          v \in DOMAIN shapeMap_' /\ shapeMap_'[v] = shapeMap_[v]
    /\ pc = "nodes" => (DOMAIN shapeMap_' \ DOMAIN shapeMap_) \subseteq NodeOutputs(n_)
    /\ pc = "inputs" => (DOMAIN shapeMap_' \ DOMAIN shapeMap_) \subseteq {graph_.inputs[i_ + 1]}
    /\ pc \in {"idle", "outputs"} => shapeMap_' = shapeMap_

\* C7: in one pass over a graph whose values each have a single producer,
\* every entry of shapeMap_ is written exactly once, by getGraphIntputShape
\* or by its node's shapeOnNode; an entry once present is never changed or
\* removed, and shapeOnNode adds only the entries of its node's outputs.
C7_SingleAssignment == []C7_Once /\ [][C7_Step]_vars

\* a finished pass with a node of three outputs and a node after it
C7_Witness ==
    /\ pc = "done"
    /\ \E k \in 1..Len(graph_.nodes) :
          /\ Len(graph_.nodes[k].outputs) = 3
          /\ k < Len(graph_.nodes)
          /\ NodeOutputs(k) \subseteq DOMAIN shapeMap_

=============================================================================
